---- MODULE Spec2Model ----
(***************************************************************************)
(* Model of scripts/animate.py: the batch generation driver main(args),    *)
(* with save_individual_frames and read_prompts_from_file.                 *)
(*                                                                         *)
(* Strings the code inspects (paths tested with endswith, archive keys     *)
(* tested with "lora" in k, prompt-file lines that are stripped) are       *)
(* sequences of one-character strings; strings the code only passes on     *)
(* are TLA+ strings.  Python indices are kept 0-based.                     *)
(***************************************************************************)
EXTENDS Integers, Sequences, FiniteSets, TLC

\* ---------------------------------------------------------------- bounds
MaxEntries == 2   \* model entries in the run configuration document
MaxMM      == 2   \* motion modules of one model entry
MaxLines   == 3   \* lines of the prompt file, and length of seed / n_prompt lists
MaxFresh   == 2   \* distinct values torch.seed() may draw
MaxKeys    == 4   \* distinct keys a .safetensors archive may hold
L          == 2   \* --L, the number of frames of every sample (args.L)

\* ------------------------------------------------------ program constants
\* --filename default; used for every per-job artifact name
videofilename == "0000"
\* the default when a model entry has no "seed" key: model_config.get("seed", [-1])
DefaultSeedList == <<-1>>

\* ------------------------------------------------------------ characters
Min(a, b) == IF a < b THEN a ELSE b

EndsWith(s, suf) ==
    /\ Len(s) >= Len(suf)
    /\ SubSeq(s, Len(s) - Len(suf) + 1, Len(s)) = suf

\* Python's  sub in s  for strings
Contains(s, sub) ==
    \E i \in 1..(Len(s) - Len(sub) + 1) : SubSeq(s, i, i + Len(sub) - 1) = sub

IsSpace(c) == c \in {" ", "\t", "\n"}

RECURSIVE LStrip(_)
LStrip(s) == IF s # <<>> /\ IsSpace(Head(s)) THEN LStrip(Tail(s)) ELSE s

RECURSIVE RStrip(_)
RStrip(s) == IF s # <<>> /\ IsSpace(s[Len(s)]) THEN RStrip(SubSeq(s, 1, Len(s) - 1)) ELSE s

\* str.strip()
Strip(s) == RStrip(LStrip(s))

RECURSIVE read_prompts_from_file(_)
\* [line.strip() for line in file if line.strip()]
read_prompts_from_file(lines) ==
    IF lines = <<>> THEN <<>>
    ELSE IF Strip(Head(lines)) # <<>>
         THEN <<Strip(Head(lines))>> \o read_prompts_from_file(Tail(lines))
         ELSE read_prompts_from_file(Tail(lines))

CKPT        == <<".", "c", "k", "p", "t">>
SAFETENSORS == <<".", "s", "a", "f", "e", "t", "e", "n", "s", "o", "r", "s">>
LORA        == <<"l", "o", "r", "a">>

\* ------------------------------------------------------- python helpers
RECURSIVE Repeat(_, _)
\* list * n
Repeat(l, n) == IF n <= 0 THEN <<>> ELSE l \o Repeat(l, n - 1)

\* list(x) * len(prompts) if len(x) == 1 else x
\* the same without the repetition of a one-element list
BroadcastAsIs(x, n) == x
Broadcast(x, n) == IF Len(x) = 1 THEN Repeat(x, n) ELSE x

\* zip(a, b, c): stops at the shortest
Zip3(a, b, c) ==
    [i \in 1..Min(Len(a), Min(Len(b), Len(c))) |->
        [prompt |-> a[i], n_prompt |-> b[i], random_seed |-> c[i]]]

RECURSIVE AnyLora(_)
\* any() in place of all()
AnyLora(keys) ==
    IF keys = {} THEN FALSE
    ELSE LET k == CHOOSE x \in keys : TRUE
         IN  IF Contains(k, LORA) THEN TRUE ELSE AnyLora(keys \ {k})

RECURSIVE is_lora(_)
\* all("lora" in k for k in state_dict.keys())
is_lora(keys) ==
    IF keys = {} THEN TRUE
    ELSE LET k == CHOOSE x \in keys : TRUE
         IN  IF Contains(k, LORA) THEN is_lora(keys \ {k}) ELSE FALSE

\* module.load_state_dict(mapping, strict)
load_state_dict(module_keys, mapping, strict) ==
    LET missing    == module_keys \ mapping
        unexpected == mapping \ module_keys
    IN  [missing    |-> missing,
         unexpected |-> unexpected,
         raised     |-> strict /\ (missing # {} \/ unexpected # {}),
         loaded     |-> module_keys \cap mapping]

\* ----------------------------------------------------------- the files
Absent == "<absent>"
None   == "None"

File(top, sub, name, frame) == [top |-> top, sub |-> sub, name |-> name, frame |-> frame]

\* save_individual_frames(video_array, save_path, filename_prefix): the
\* files left in fs after writing the frames of one sample and the snapshot
save_individual_frames(fs0, nframes, save_path, filename_prefix) ==
    fs0 \cup {File("frames", save_path, filename_prefix, i) : i \in 0..(nframes - 1)}
        \cup {File("frames", save_path, "st.png", -1)}

\* the keys of the denoising network and of the autoencoder
UNetKeys == {"u1", "u2"}
VaeKeys  == {"v1"}
\* the keys a weight file or a converted mapping may hold
UNetFileKeys == SUBSET {"u1", "u2", "z"}
VaeFileKeys  == SUBSET {"v1", "z"}

\* archive keys of a .safetensors file: names that contain "lora" and names that do not
KeyPool == << <<"l","o","r","a","_","u">>, <<"u",".","w">>, <<"x","l","o","r","a">>,
              <<"r","o","l","a">>, <<"l","o","r">>, <<"a","l","o","r","a","b">> >>
KeyUniverse == {KeyPool[i] : i \in 1..Min(MaxKeys, Len(KeyPool))}

\* ---------------------------------------------------------------- state
VARIABLES
    config,          \* OmegaConf.load(args.config): the sequence of (config_key, model_config)
    prompts_file,    \* the lines of args.prompts_file
    xformers,        \* is_xformers_available()
    disk,            \* the keys held by the weight files and produced by the converters
    run,             \* 1: the run of the original configuration, 2: the run of its manifest
    first_run,       \* the samples of run 1, kept when the manifest is fed back in
    pc, err,         \* position in main, and the exception that ended it
    model_idx, motion_modules, mm_idx, zipped, prompt_idx,
    pipeline, builds,
    init_image,      \* the local init_image of main
    torch_seed,      \* torch.initial_seed(): the seed of the global generator
    samples, sample_idx,
    fs,              \* the files of the run directory savedir
    manifest         \* the content of savedir/config.yaml

vars == <<config, prompts_file, xformers, disk, run, first_run, pc, err,
          model_idx, motion_modules, mm_idx, zipped, prompt_idx, pipeline, builds,
          init_image, torch_seed, samples, sample_idx, fs, manifest>>

\* ------------------------------------------------------ the input domain
Str(s)       == [tag |-> "str",  val |-> <<s>>]
List(l)      == [tag |-> "list", val |-> l]
SeedInt(v)   == [tag |-> "int",  val |-> <<v>>]
SeedAbsent   == [tag |-> "absent", val |-> <<>>]
NoRandomSeed == [tag |-> "absent", val |-> <<>>]

PromptPool == <<"a", "b", "c", "d", "e">>
MMPool     == <<"mm_a.ckpt", "mm_b.ckpt", "mm_c.ckpt", "mm_d.ckpt">>
NPool      == <<"n1", "n2", "n3", "n4", "n5">>
SeedPool   == <<7, 8, 9, 10, 11>>
ImagePool  == <<"init_a.jpg", "init_b.jpg">>

Prefix(pool, n) == SubSeq(pool, 1, Min(n, Len(pool)))

\* all sequences over S of length lo..hi
SeqsOf(S, lo, hi) == UNION {[1..n -> S] : n \in lo..hi}

DefaultEntry ==
    [path                |-> <<>>,
     base                |-> "base.safetensors",
     motion_module       |-> Str(MMPool[1]),
     n_prompt            |-> <<NPool[1]>>,
     seed                |-> List(<<SeedPool[1]>>),
     init_image          |-> Absent,
     additional_networks |-> <<>>,
     random_seed         |-> NoRandomSeed]

DefaultDisk ==
    [mm |-> {"u1"}, ckpt |-> UNetKeys, st |-> {}, vae_conv |-> VaeKeys, unet_conv |-> UNetKeys]

\* a prompt file of n lines without blanks
CleanFile(n) == [i \in 1..n |-> <<PromptPool[i]>>]

\* line i of a prompt file: blank, whitespace only, a prompt, a prompt with padding
LineChoices(i) == {<<>>, <<" ">>, <<PromptPool[i]>>, <<" ", PromptPool[i], "\n">>}
PromptFiles == UNION {{f \in [1..n -> UNION {LineChoices(i) : i \in 1..n}] :
                          \A i \in 1..n : f[i] \in LineChoices(i)} : n \in 0..MaxLines}

MMSpecs == {Str(MMPool[1])} \cup {List(Prefix(MMPool, k)) : k \in 0..MaxMM}

\* entries that differ in their motion modules and in a broadcast or per-prompt seed list
MatrixEntries(n) ==
    {[DefaultEntry EXCEPT !.motion_module = m, !.seed = List(s)] :
        m \in MMSpecs, s \in {<<SeedPool[1]>>, Prefix(SeedPool, n)}}

\* entries whose seed and negative-prompt lists have any length
ListLenEntries ==
    {[DefaultEntry EXCEPT !.motion_module = m, !.seed = s, !.n_prompt = Prefix(NPool, k)] :
        m \in {Str(MMPool[1]), List(Prefix(MMPool, 2))},
        s \in {SeedInt(SeedPool[1])} \cup {List(Prefix(SeedPool, j)) : j \in 0..MaxLines},
        k \in 0..MaxLines}

\* entries whose seed specification mixes explicit seeds and the -1 sentinel
SeedEntries ==
    {[DefaultEntry EXCEPT !.seed = s] :
        s \in {SeedAbsent, SeedInt(-1), SeedInt(SeedPool[1])}
              \cup {List(l) : l \in SeqsOf({-1, SeedPool[1]}, 1, MaxLines)}}

ImageEntries ==
    {[DefaultEntry EXCEPT !.init_image = im] : im \in {Absent, ImagePool[1], ImagePool[2]}}

PathPool == {<<>>, <<"m">> \o CKPT, <<"m">> \o SAFETENSORS, <<"m", ".", "b", "i", "n">>,
             <<"c", "k", "p", "t">>}
AdditionalNetworks == {<<>>, <<[lora_path |-> "add.safetensors", lora_alpha |-> 1]>>}

InitRest ==
    /\ run = 1 /\ first_run = <<>>
    /\ pc = "for_model" /\ err = "none"
    /\ model_idx = -1 /\ motion_modules = <<>> /\ mm_idx = -1
    /\ zipped = <<>> /\ prompt_idx = -1
    /\ pipeline = [id |-> 0, motion_module |-> None, unet |-> {}, vae |-> {},
                   base |-> "pretrained", loras |-> <<>>]
    /\ builds = 0
    /\ init_image = "<unbound>"
    /\ torch_seed = 0
    /\ samples = <<>> /\ sample_idx = 0
    /\ fs = {} /\ manifest = <<>>

InitMatrix ==
    /\ \E n \in 0..MaxLines :
          /\ prompts_file = CleanFile(n)
          /\ config \in SeqsOf(MatrixEntries(n), 1, MaxEntries)
    /\ xformers = TRUE /\ disk = DefaultDisk

InitListLen ==
    /\ prompts_file \in {CleanFile(n) : n \in 0..MaxLines}
    /\ config \in {<<e>> : e \in ListLenEntries}
    /\ xformers = TRUE /\ disk = DefaultDisk

InitSeed ==
    /\ prompts_file \in {CleanFile(n) : n \in 1..MaxLines}
    /\ config \in {<<e>> : e \in SeedEntries}
    /\ xformers = TRUE /\ disk = DefaultDisk

InitImage ==
    /\ prompts_file = CleanFile(2)
    /\ config \in SeqsOf(ImageEntries, 1, MaxEntries + 1)
    /\ xformers = TRUE /\ disk = DefaultDisk

InitFile ==
    /\ prompts_file \in PromptFiles
    /\ config = <<DefaultEntry>>
    /\ xformers \in BOOLEAN /\ disk = DefaultDisk

InitLoad ==
    /\ prompts_file = CleanFile(2)
    /\ xformers = TRUE
    /\ \E p \in PathPool, an \in AdditionalNetworks :
          /\ config = <<[DefaultEntry EXCEPT !.path = p, !.additional_networks = an]>>
          /\ IF p = <<>>
             THEN \E k \in UNetFileKeys : disk = [DefaultDisk EXCEPT !.mm = k]
             ELSE IF EndsWith(p, CKPT)
             THEN \E k \in UNetFileKeys : disk = [DefaultDisk EXCEPT !.ckpt = k]
             ELSE IF EndsWith(p, SAFETENSORS)
             THEN \E k \in SUBSET KeyUniverse, v \in VaeFileKeys, u \in {UNetKeys, {"u1", "z"}} :
                     disk = [DefaultDisk EXCEPT !.st = k, !.vae_conv = v, !.unet_conv = u]
             ELSE disk = DefaultDisk

\* the state when main is entered: one input document per family above
Init ==
    /\ InitRest
    /\ (InitMatrix \/ InitListLen \/ InitSeed \/ InitImage \/ InitFile \/ InitLoad)

\* -------------------------------------------------------------- actions
model_config == config[model_idx + 1]

\* [motion_modules] if isinstance(motion_modules, str) else list(motion_modules)
NormaliseMotionModules(m) == m.val

\* [random_seeds] if isinstance(random_seeds, int) else list(random_seeds), after
\* model_config.get("seed", [-1])
NormaliseSeeds(sd) == IF sd.tag = "absent" THEN DefaultSeedList ELSE sd.val

\* the identity of the pipeline object when the first one built is kept and reused
SamePipelineId(n) == IF n > 0 THEN 1 ELSE n + 1
\* the identity of the pipeline object built after n others
NewPipelineId(n) == n + 1

Abort(e) ==
    /\ pc' = "aborted"
    /\ err' = e

\* line 77-80: for model_idx, (config_key, model_config) in enumerate(config.items())
ForModel ==
    /\ pc = "for_model"
    /\ IF model_idx + 1 < Len(config)
       THEN /\ model_idx' = model_idx + 1
            /\ motion_modules' = NormaliseMotionModules(config[model_idx + 2].motion_module)
            /\ mm_idx' = -1
            /\ pc' = "for_motion_module"
       ELSE /\ pc' = "finish"
            /\ UNCHANGED <<model_idx, motion_modules, mm_idx>>
    /\ UNCHANGED <<config, prompts_file, xformers, disk, run, first_run, err, zipped,
                   prompt_idx, pipeline, builds, init_image, torch_seed, samples,
                   sample_idx, fs, manifest>>

\* line 81-95: for motion_module in motion_modules: build the pipeline from the
\* pretrained components and require xformers
ForMotionModule ==
    /\ pc = "for_motion_module"
    /\ IF mm_idx + 1 < Len(motion_modules)
       THEN /\ mm_idx' = mm_idx + 1
            /\ IF xformers
               THEN /\ pipeline' = [id |-> NewPipelineId(builds), motion_module |-> None,
                                    unet |-> {}, vae |-> {}, base |-> "pretrained",
                                    loras |-> <<>>]
                    /\ builds' = builds + 1
                    /\ pc' = "load_motion_module"
                    /\ err' = err
               ELSE /\ Abort("AssertionError")
                    /\ UNCHANGED <<pipeline, builds>>
       ELSE /\ pc' = "for_model"
            /\ UNCHANGED <<mm_idx, pipeline, builds, err>>
    /\ UNCHANGED <<config, prompts_file, xformers, disk, run, first_run, model_idx,
                   motion_modules, zipped, prompt_idx, init_image, torch_seed, samples,
                   sample_idx, fs, manifest>>

\* line 99-112: load the motion module into the denoising network, strict=False
LoadMotionModule ==
    /\ pc = "load_motion_module"
    /\ LET r == load_state_dict(UNetKeys, disk.mm, FALSE)
       IN  IF r.raised
           THEN Abort("RuntimeError: load_state_dict") /\ UNCHANGED pipeline
           ELSE /\ pipeline' = [pipeline EXCEPT !.motion_module = motion_modules[mm_idx + 1],
                                                !.unet = @ \cup r.loaded]
                /\ pc' = "load_t2i"
                /\ err' = err
    /\ UNCHANGED <<config, prompts_file, xformers, disk, run, first_run, model_idx,
                   motion_modules, mm_idx, zipped, prompt_idx, builds, init_image,
                   torch_seed, samples, sample_idx, fs, manifest>>

RECURSIVE convert_loras(_, _)
\* line 150-159: one convert_lora per additional network, in list order
convert_loras(loras, nets) ==
    IF nets = <<>> THEN loras
    ELSE convert_loras(Append(loras, Head(nets).lora_path), Tail(nets))

\* line 116-118: a .ckpt base checkpoint, loaded with the default strict=True
LoadCkpt(p) ==
    LET r == load_state_dict(UNetKeys, disk.ckpt, TRUE)
    IN  [raised |-> r.raised,
         pipeline |-> [p EXCEPT !.unet = @ \cup r.loaded, !.base = "path"]]

\* line 120-159: a .safetensors archive: classified, converted, loaded, merged
LoadSafetensors(p) ==
    LET lora == is_lora(disk.st)
        rv   == load_state_dict(VaeKeys, disk.vae_conv, TRUE)
        ru   == load_state_dict(UNetKeys, disk.unet_conv, FALSE)
        l1   == IF lora THEN Append(p.loras, "path") ELSE p.loras
    IN  [raised |-> rv.raised \/ ru.raised,
         pipeline |-> [p EXCEPT !.vae = @ \cup rv.loaded,
                                !.unet = @ \cup ru.loaded,
                                !.base = IF lora THEN "base" ELSE "path",
                                !.loras = convert_loras(l1, model_config.additional_networks)]]

\* line 115-161: the T2I weights of model_config.path
LoadT2I ==
    /\ pc = "load_t2i"
    /\ LET path == model_config.path
           r == IF path = <<>> THEN [raised |-> FALSE, pipeline |-> pipeline]
                ELSE IF EndsWith(path, CKPT) THEN LoadCkpt(pipeline)
                ELSE IF EndsWith(path, SAFETENSORS) THEN LoadSafetensors(pipeline)
                ELSE [raised |-> FALSE, pipeline |-> pipeline]
       IN  IF r.raised
           THEN Abort("RuntimeError: load_state_dict") /\ UNCHANGED pipeline
           ELSE /\ pipeline' = r.pipeline
                /\ pc' = "expand"
                /\ err' = err
    /\ UNCHANGED <<config, prompts_file, xformers, disk, run, first_run, model_idx,
                   motion_modules, mm_idx, zipped, prompt_idx, builds, init_image,
                   torch_seed, samples, sample_idx, fs, manifest>>

\* line 165-174: the prompts, the negative prompts and seeds broadcast to them, the
\* initial image, and the realized-seed list of the entry emptied
Expand ==
    /\ pc = "expand"
    /\ LET prompts      == read_prompts_from_file(prompts_file)
           n_prompts    == Broadcast(model_config.n_prompt, Len(prompts))
           random_seeds == Broadcast(NormaliseSeeds(model_config.seed), Len(prompts))
       IN  zipped' = Zip3(prompts, n_prompts, random_seeds)
    /\ init_image' = IF model_config.init_image # Absent THEN model_config.init_image ELSE None
    /\ config' = [config EXCEPT ![model_idx + 1].random_seed = List(<<>>)]
    /\ prompt_idx' = -1
    /\ pc' = "for_prompt"
    /\ UNCHANGED <<prompts_file, xformers, disk, run, first_run, err, model_idx,
                   motion_modules, mm_idx, pipeline, builds, torch_seed, samples,
                   sample_idx, fs, manifest>>

\* line 178-179: torch.manual_seed(random_seed) or, for -1, torch.seed()
FreshSeeds == 101..(100 + MaxFresh)
SetSeed(random_seed, fresh) == IF random_seed # -1 THEN random_seed ELSE fresh

\* line 175-206: one Job: seed, sample, per-job artifact, frames and snapshot
ForPrompt ==
    /\ pc = "for_prompt"
    /\ IF prompt_idx + 1 < Len(zipped)
       THEN \E fresh \in FreshSeeds :
              LET z    == zipped[prompt_idx + 2]
                  seed == SetSeed(z.random_seed, fresh)
                  fs1  == fs \cup {File("sample", "", videofilename, -1)}
              IN  /\ prompt_idx' = prompt_idx + 1
                  /\ torch_seed' = seed
                  /\ config' = [config EXCEPT ![model_idx + 1].random_seed.val = Append(@, seed)]
                  /\ samples' = Append(samples,
                        [model_idx |-> model_idx, mm_idx |-> mm_idx,
                         prompt_idx |-> prompt_idx + 1,
                         motion_module |-> pipeline.motion_module,
                         prompt |-> z.prompt, negative_prompt |-> z.n_prompt,
                         random_seed |-> z.random_seed, realized |-> seed,
                         init_image |-> init_image, pipeline |-> pipeline.id,
                         frames |-> L])
                  /\ fs' = save_individual_frames(fs1, L, videofilename, videofilename)
                  /\ sample_idx' = sample_idx + 1
                  /\ pc' = pc
       ELSE /\ pc' = "for_motion_module"
            /\ UNCHANGED <<prompt_idx, torch_seed, config, samples, fs, sample_idx>>
    /\ UNCHANGED <<prompts_file, xformers, disk, run, first_run, err, model_idx,
                   motion_modules, mm_idx, zipped, pipeline, builds, init_image, manifest>>

\* line 208-213: the aggregate artifact, the manifest, the copy of the initial image
Finish ==
    /\ pc = "finish"
    /\ IF samples = <<>>
       THEN /\ Abort("RuntimeError: torch.concat")
            /\ UNCHANGED <<fs, manifest>>
       ELSE /\ fs' = fs \cup {File("", "", "sample.gif", -1), File("", "", "config.yaml", -1)}
                       \cup (IF init_image # None
                             THEN {File("", "", "init_image.jpg", sample_idx)}
                             ELSE {})
            /\ manifest' = config
            /\ pc' = "done"
            /\ err' = err
    /\ UNCHANGED <<config, prompts_file, xformers, disk, run, first_run, model_idx,
                   motion_modules, mm_idx, zipped, prompt_idx, pipeline, builds,
                   init_image, torch_seed, samples, sample_idx>>

\* the emitted savedir/config.yaml is given to a second run as args.config
Replay ==
    /\ pc = "done"
    /\ run = 1
    /\ run' = 2
    /\ first_run' = samples
    /\ config' = manifest
    /\ pc' = "for_model"
    /\ model_idx' = -1 /\ motion_modules' = <<>> /\ mm_idx' = -1
    /\ zipped' = <<>> /\ prompt_idx' = -1
    /\ init_image' = "<unbound>"
    /\ samples' = <<>> /\ sample_idx' = 0
    /\ fs' = {} /\ manifest' = <<>>
    /\ pipeline' = [id |-> 0, motion_module |-> None, unet |-> {}, vae |-> {},
                    base |-> "pretrained", loras |-> <<>>]
    /\ builds' = 0
    /\ torch_seed' = 0
    /\ UNCHANGED <<prompts_file, xformers, disk, err>>

Next ==
    \/ ForModel
    \/ ForMotionModule
    \/ LoadMotionModule
    \/ LoadT2I
    \/ Expand
    \/ ForPrompt
    \/ Finish
    \/ Replay

Spec == Init /\ [][Next]_vars

\* ------------------------------------------------------------ properties
NumPrompts == Len(read_prompts_from_file(prompts_file))

\* the seed and negative-prompt lists of entry e have length 1 or the prompt count
ValidLists(e) ==
    /\ Len(e.n_prompt) \in {1, NumPrompts}
    /\ Len(NormaliseSeeds(e.seed)) \in {1, NumPrompts}

AllValid == \A k \in 1..Len(config) : ValidLists(config[k])

\* the samples of entry k (1-based), in the order they were produced
SamplesOf(k) == SelectSeq(samples, LAMBDA j : j.model_idx = k - 1)

Realized(js) == [i \in 1..Len(js) |-> js[i].realized]

SupportedPath(path) == path = <<>> \/ EndsWith(path, CKPT) \/ EndsWith(path, SAFETENSORS)

\* C1: a seed or negative-prompt list whose length is neither 1 nor the number
\* of prompts is a configuration error: the run aborts and no Job of that
\* ModelEntry is executed.
C1_BadListLengthAborts ==
    /\ \A i \in 1..Len(samples) : ValidLists(config[samples[i].model_idx + 1])
    /\ pc = "done" => AllValid

\* C2: after a completed run the manifest holds, for every ModelEntry with
\* valid lists, exactly one realized seed per executed Job of that entry, in
\* job order (M x P of them).
C2_ManifestSeedPerJob ==
    pc = "done" =>
        \A k \in 1..Len(manifest) :
            ValidLists(config[k]) =>
                /\ manifest[k].random_seed.val = Realized(SamplesOf(k))
                /\ Len(manifest[k].random_seed.val)
                      = Len(NormaliseMotionModules(config[k].motion_module)) * NumPrompts

\* C3: the run of the emitted manifest resolves every Job to the realized seed
\* the corresponding Job of the first run had.
C3_ReplaySameSeeds ==
    (run = 2 /\ pc = "done") => Realized(samples) = Realized(first_run)

\* C4: a completed run of N Jobs with F frames each leaves N per-job artifacts
\* under sample/, N x F numbered frame images under frames/, one snapshot and
\* one aggregate artifact.
C4_ArtifactPerJob ==
    pc = "done" =>
        /\ Cardinality({f \in fs : f.top = "sample"}) = Len(samples)
        /\ Cardinality({f \in fs : f.top = "frames" /\ f.frame >= 0}) = Len(samples) * L
        /\ Cardinality({f \in fs : f.top = "frames" /\ f.name = "st.png"}) = 1
        /\ Cardinality({f \in fs : f.top = "" /\ f.name = "sample.gif"}) = 1

\* C5: no weight-load step aborts the run because the mapping lacks keys of
\* the module or holds keys the module does not have.
C5_KeyMismatchNeverFatal ==
    err # "RuntimeError: load_state_dict"

\* the Jobs the configuration expands to: entries in document order, motion
\* modules in list order, prompts in file order
JobAt(k, m, p) ==
    LET e  == config[k]
        ps == read_prompts_from_file(prompts_file)
        sd == NormaliseSeeds(e.seed)
    IN  [model_idx |-> k - 1, mm_idx |-> m - 1, prompt_idx |-> p - 1,
         motion_module |-> NormaliseMotionModules(e.motion_module)[m],
         prompt |-> ps[p],
         negative_prompt |-> IF Len(e.n_prompt) = 1 THEN e.n_prompt[1] ELSE e.n_prompt[p],
         random_seed |-> IF Len(sd) = 1 THEN sd[1] ELSE sd[p]]

JobsOfEntry(k) ==
    LET M == Len(NormaliseMotionModules(config[k].motion_module))
        P == NumPrompts
    IN  [j \in 1..(M * P) |-> JobAt(k, ((j - 1) \div P) + 1, ((j - 1) % P) + 1)]

RECURSIVE JobsFrom(_)
JobsFrom(k) == IF k > Len(config) THEN <<>> ELSE JobsOfEntry(k) \o JobsFrom(k + 1)

ExpectedJobs == JobsFrom(1)

Identity(j) ==
    [model_idx |-> j.model_idx, mm_idx |-> j.mm_idx, prompt_idx |-> j.prompt_idx,
     motion_module |-> j.motion_module, prompt |-> j.prompt,
     negative_prompt |-> j.negative_prompt, random_seed |-> j.random_seed]

Executed == [i \in 1..Len(samples) |-> Identity(samples[i])]

\* C6: with lists of valid length, the Jobs executed so far are the first Jobs
\* of the expansion (entries, then motion modules, then prompts), and when the
\* loops are over exactly one Job per (motion module, prompt) pair of every
\* entry has been executed; a one-element seed list hands its value to every
\* Job, and a seed other than -1 is the realized seed.
C6_JobOrder ==
    AllValid =>
        /\ Len(Executed) <= Len(ExpectedJobs)
        /\ Executed = SubSeq(ExpectedJobs, 1, Len(Executed))
        /\ pc \in {"finish", "done"} => Executed = ExpectedJobs
        /\ \A i \in 1..Len(samples) :
              /\ Len(NormaliseSeeds(config[samples[i].model_idx + 1].seed)) = 1
                   => samples[i].random_seed
                        = NormaliseSeeds(config[samples[i].model_idx + 1].seed)[1]
              /\ samples[i].random_seed # -1 => samples[i].realized = samples[i].random_seed

C6_Witness ==
    /\ pc = "done" /\ AllValid
    /\ Len(config) >= 2 /\ NumPrompts >= 3
    /\ Len(NormaliseMotionModules(config[1].motion_module)) >= 2
    /\ Len(NormaliseSeeds(config[1].seed)) = 1
    /\ Len(NormaliseSeeds(config[2].seed)) = NumPrompts
    /\ Len(samples) >= 9

\* C7: the archive at a .safetensors path is merged as an adapter onto the base
\* loaded from model_config.base exactly when every one of its keys contains
\* "lora" (also when it has no keys); with one other key it is itself the base
\* and is not merged.
C7_Classification ==
    (pc \in {"expand", "for_prompt"} /\ EndsWith(model_config.path, SAFETENSORS)) =>
        LET adapter == \A k \in disk.st : Contains(k, LORA)
            merged  == \E i \in 1..Len(pipeline.loras) : pipeline.loras[i] = "path"
        IN  /\ adapter => (pipeline.base = "base" /\ merged)
            /\ ~adapter => (pipeline.base = "path" /\ ~merged)

C7_Witness ==
    /\ pc = "for_prompt" /\ prompt_idx >= 0
    /\ EndsWith(model_config.path, SAFETENSORS)
    /\ \E k1, k2 \in disk.st : Contains(k1, LORA) /\ ~Contains(k2, LORA)
    /\ pipeline.base = "path"

\* C8 as stated: all Jobs of one ModelEntry run on one composed model.
C8_OncePerEntry ==
    \A i, j \in 1..Len(samples) :
        samples[i].model_idx = samples[j].model_idx
            => samples[i].pipeline = samples[j].pipeline

\* the (entry, motion module) iterations entered so far
RECURSIVE MotionModulesBefore(_)
MotionModulesBefore(k) ==
    IF k <= 0 THEN 0
    ELSE Len(NormaliseMotionModules(config[k].motion_module)) + MotionModulesBefore(k - 1)

\* C8 amended: the composed model is built once per (ModelEntry, motion module)
\* pair and reused for all Jobs of that pair; two Jobs run on the same composed
\* model exactly when they have the same entry and the same motion module, and
\* one model has been composed per pair the iteration has entered.
C8_OncePerMotionModule ==
    /\ \A i, j \in 1..Len(samples) :
          (samples[i].model_idx = samples[j].model_idx /\ samples[i].mm_idx = samples[j].mm_idx)
              <=> samples[i].pipeline = samples[j].pipeline
    /\ err # "AssertionError" => builds = MotionModulesBefore(model_idx) + mm_idx + 1

C8_Witness ==
    /\ pc = "done"
    /\ \E i, j \in 1..Len(samples) :
          /\ samples[i].model_idx = samples[j].model_idx
          /\ samples[i].mm_idx = samples[j].mm_idx
          /\ samples[i].prompt_idx # samples[j].prompt_idx
    /\ \E i, j \in 1..Len(samples) :
          /\ samples[i].model_idx = samples[j].model_idx
          /\ samples[i].mm_idx # samples[j].mm_idx

\* C9: no Job is executed for a ModelEntry whose non-empty checkpoint path ends
\* in neither .ckpt nor .safetensors.
C9_UnsupportedFormatAborts ==
    \A i \in 1..Len(samples) : SupportedPath(config[samples[i].model_idx + 1].path)

\* C10: after a completed run the initial image has been copied into the run
\* directory exactly when some Job specified one.
C10_InitImageCopied ==
    pc = "done" =>
        ((\E i \in 1..Len(samples) : samples[i].init_image # None)
            <=> (\E f \in fs : f.name = "init_image.jpg"))

====
